---- MODULE Spec2Model ----
(***************************************************************************)
(* Model of the writing-challenge dashboard (src/app12.py, src/app2.py).   *)
(*                                                                         *)
(* The two variants share load_data, update_data and                       *)
(* calculate_challenge_status line for line and differ in                  *)
(* get_motivation_message; the definitions below follow src/app12.py, and  *)
(* the pacing message of src/app2.py is computed beside that of            *)
(* src/app12.py from the same total and the same today.                    *)
(*                                                                         *)
(* Representation                                                          *)
(*   - a datetime.date is its proleptic Gregorian ordinal (an integer);    *)
(*   - a date cell of the sheet is the triple <<y, m, d>> of the fields of *)
(*     its "YYYY-MM-DD" text, or any other tuple when it is not a date;    *)
(*   - a text is a sequence of one-character strings;                      *)
(*   - a float percentage is the exact fraction <<num, den>> in lowest     *)
(*     terms (IEEE rounding is not modelled: with the configured goals 5   *)
(*     and 20 every quotient * 100 is an integer, and Python's float       *)
(*     result differs from it by one ulp only for a total of 11, 22, 23).  *)
(***************************************************************************)
EXTENDS Integers, Sequences, FiniteSets, TLC

VARIABLES
    today,      \* date.today() as read by the latest script run
    sheet,      \* rows of the participant's worksheet, oldest first
    cache,      \* st.cache_data entry of load_data(member)
    status,     \* what the latest calculate_challenge_status call returned
    repeated,   \* the latest call had the inputs of the call before it
    saves,      \* successful appends made in this session
    ticks,      \* midnights passed in this session
    modal,      \* modal_date and modal_motivation of st.session_state
    loaded,     \* how the frame of the latest call was loaded
    errors,     \* st.error messages on the page after the latest run
    view,       \* st.session_state.view
    selected_member,    \* st.session_state.selected_member
    conn,       \* init_connection() returns a spreadsheet
    page,       \* the page the latest script run rendered
    writing,    \* writing_area_content and writing_area_key of st.session_state
    input_pwd   \* the password sent with the latest press of the login button

\* the session state of the routing
nav == <<view, selected_member, conn, page, input_pwd>>

vars == <<today, sheet, cache, status, repeated, saves, ticks, modal, loaded, errors,
          view, selected_member, conn, page, writing, input_pwd>>

(***************************************************************************)
(* Bounds of the model.                                                    *)
(***************************************************************************)
\* days of clock modelled before the challenge start and after its end
Margin == 3
\* successful saves per session
MaxSaves == 1
\* midnights per session
MaxTicks == 1

(***************************************************************************)
(* datetime.date                                                           *)
(***************************************************************************)
IsLeap(y) == (y % 4 = 0) /\ ((y % 100 # 0) \/ (y % 400 = 0))

DaysInMonth(y, m) ==
    IF m = 2 THEN (IF IsLeap(y) THEN 29 ELSE 28)
    ELSE IF m \in {4, 6, 9, 11} THEN 30 ELSE 31

DaysBeforeYear(y) ==
    LET p == y - 1 IN p * 365 + (p \div 4) - (p \div 100) + (p \div 400)

\* datetime._DAYS_BEFORE_MONTH, and one more day after February of a leap year
DaysBeforeMonth(y, m) ==
    <<0, 31, 59, 90, 120, 151, 181, 212, 243, 273, 304, 334>>[m]
        + (IF m > 2 /\ IsLeap(y) THEN 1 ELSE 0)

IsValidDate(y, m, d) ==
    /\ y >= 1
    /\ m \in 1..12
    /\ d >= 1
    /\ d <= DaysInMonth(y, m)

\* date(y, m, d)
Date(y, m, d) == DaysBeforeYear(y) + DaysBeforeMonth(y, m) + d

(***************************************************************************)
(* Configuration.                                                          *)
(***************************************************************************)
\* the 17 participants, their names in Latin letters
MEMBERS == <<"Kim Gahui", "Kim Yeseul", "Kim Eunbi", "Kim Jia", "Yang Taeim",
             "Yeon Daeun", "Yong Gyeongbin", "Yun Hyejin", "Yi Ganghui",
             "Yi Jihyeong", "Yi Hyeonmin", "Im Sohui", "Jang Sanghui",
             "Jeon Hyeseong", "Choe Hanbit", "Hoju Kim Jia", "Hong Uigyeong">>
\* the one-character suffix, in Latin letters
TODAY_PASSWORD_SUFFIX == <<"K">>
WEEKLY_GOAL == 5
TOTAL_CHALLENGE_GOAL == 20

\* mutant: the second graded week begins on the last day of the first
CHALLENGE_WEEKS_Overlap == <<
    [name |-> "bonus", start |-> Date(2025, 12, 3), end |-> Date(2025, 12, 7),
     goal |-> 0, is_challenge |-> FALSE],
    [name |-> "week1", start |-> Date(2025, 12, 8), end |-> Date(2025, 12, 14),
     goal |-> WEEKLY_GOAL, is_challenge |-> TRUE],
    [name |-> "week2", start |-> Date(2025, 12, 14), end |-> Date(2025, 12, 21),
     goal |-> WEEKLY_GOAL, is_challenge |-> TRUE],
    [name |-> "week3", start |-> Date(2025, 12, 22), end |-> Date(2025, 12, 28),
     goal |-> WEEKLY_GOAL, is_challenge |-> TRUE],
    [name |-> "week4", start |-> Date(2025, 12, 29), end |-> Date(2026, 1, 4),
     goal |-> WEEKLY_GOAL, is_challenge |-> TRUE] >>

CHALLENGE_WEEKS == <<
    [name |-> "bonus", start |-> Date(2025, 12, 3), end |-> Date(2025, 12, 7),
     goal |-> 0, is_challenge |-> FALSE],
    [name |-> "week1", start |-> Date(2025, 12, 8), end |-> Date(2025, 12, 14),
     goal |-> WEEKLY_GOAL, is_challenge |-> TRUE],
    [name |-> "week2", start |-> Date(2025, 12, 15), end |-> Date(2025, 12, 21),
     goal |-> WEEKLY_GOAL, is_challenge |-> TRUE],
    [name |-> "week3", start |-> Date(2025, 12, 22), end |-> Date(2025, 12, 28),
     goal |-> WEEKLY_GOAL, is_challenge |-> TRUE],
    [name |-> "week4", start |-> Date(2025, 12, 29), end |-> Date(2026, 1, 4),
     goal |-> WEEKLY_GOAL, is_challenge |-> TRUE] >>

CHALLENGE_START_DATE == CHALLENGE_WEEKS[1].start
CHALLENGE_END_DATE == CHALLENGE_WEEKS[Len(CHALLENGE_WEEKS)].end

\* the clock values of the model
FirstDay == CHALLENGE_START_DATE - Margin
LastDay == CHALLENGE_END_DATE + Margin
Days == FirstDay..LastDay

(***************************************************************************)
(* target_date.strftime('%Y-%m-%d'): the fields of the ISO text.           *)
(***************************************************************************)
Years == 2025..2026

FormatDate(n) ==
    LET y == CHOOSE c \in Years : DaysBeforeYear(c) < n /\ n <= DaysBeforeYear(c + 1)
        k == n - DaysBeforeYear(y)
        m == CHOOSE c \in 1..12 :
                 DaysBeforeMonth(y, c) < k /\ k <= DaysBeforeMonth(y, c) + DaysInMonth(y, c)
    IN  <<y, m, k - DaysBeforeMonth(y, m)>>

(***************************************************************************)
(* str.strip()                                                             *)
(***************************************************************************)
Whitespace == {" ", "\n"}

RECURSIVE LStrip(_)
LStrip(s) ==
    IF s # <<>> /\ Head(s) \in Whitespace THEN LStrip(Tail(s)) ELSE s

RECURSIVE RStrip(_)
RStrip(s) ==
    IF s # <<>> /\ s[Len(s)] \in Whitespace THEN RStrip(SubSeq(s, 1, Len(s) - 1)) ELSE s

Strip(s) == RStrip(LStrip(s))

(***************************************************************************)
(* Percentages: exact fractions <<num, den>>, den > 0, in lowest terms.    *)
(* A division by zero raises ZeroDivisionError: the value that stands for  *)
(* it has denominator 0 and is carried through the arithmetic after it.    *)
(***************************************************************************)
ZeroDivisionError == <<0, 0>>

RECURSIVE GCD(_, _)
GCD(a, b) == IF b = 0 THEN a ELSE GCD(b, a % b)

Frac(n, d) ==
    IF d = 0 THEN ZeroDivisionError
    ELSE LET g == GCD(n, d) IN <<n \div g, d \div g>>

\* min(f, k) for a fraction f and an integer k
FracMin(f, k) == IF f[1] > k * f[2] THEN <<k, 1>> ELSE f

FracScale(f, k) == Frac(f[1] * k, f[2])

Min(a, b) == IF a <= b THEN a ELSE b

Range(s) == {s[i] : i \in DOMAIN s}

(***************************************************************************)
(* load_data: the worksheet's records as a frame of (date, text) rows.     *)
(***************************************************************************)
\* pd.to_datetime(..., errors='coerce'): a cell that is no date becomes NaT
Parseable(cell) == Len(cell) = 3 /\ IsValidDate(cell[1], cell[2], cell[3])

\* .dt.normalize() and x.date() of a parsed cell
ToDate(cell) == Date(cell[1], cell[2], cell[3])

\* mutant: the rows after the first NaT are lost with it
DropNa_Truncate(rows) ==
    LET bad == {k \in DOMAIN rows : ~Parseable(rows[k].date)}
    IN  IF bad = {} THEN rows
        ELSE SubSeq(rows, 1, (CHOOSE k \in bad : \A j \in bad : k <= j) - 1)

\* df.dropna(subset=['날짜'])
DropNa(rows) == SelectSeq(rows, LAMBDA r : Parseable(r.date))

LoadData(rows) ==
    IF rows = <<>> THEN <<>>
    ELSE LET kept == DropNa(rows)
         IN  [i \in 1..Len(kept) |-> [date |-> ToDate(kept[i].date), text |-> kept[i].text]]

(***************************************************************************)
(* calculate_challenge_status                                              *)
(***************************************************************************)
\* df_member[(date >= CHALLENGE_START_DATE) & (date <= CHALLENGE_END_DATE)]
FilterWindow(df) ==
    SelectSeq(df, LAMBDA r : r.date >= CHALLENGE_START_DATE /\ r.date <= CHALLENGE_END_DATE)

\* the dates of a set in ascending order
SortedSeq(S) ==
    IF S = {} THEN <<>>
    ELSE LET lo == CHOOSE x \in S : \A y \in S : x <= y
             hi == CHOOSE x \in S : \A y \in S : y <= x
         IN  SelectSeq([i \in 1..(hi - lo + 1) |-> lo + i - 1], LAMBDA d : d \in S)

\* mutant: .all() for .any()
AnyWritten_All(df, d) ==
    \A i \in DOMAIN df : df[i].date = d => Strip(df[i].text) # <<>>

\* mutant: the last row of the day decides
AnyWritten_Last(df, d) ==
    LET rows == {i \in DOMAIN df : df[i].date = d}
    IN  /\ rows # {}
        /\ Strip(df[CHOOSE i \in rows : \A j \in rows : j <= i].text) # <<>>

\* the lambda of the groupby: (x.astype(str).str.strip() != '').any()
AnyWritten(df, d) ==
    \E i \in DOMAIN df : df[i].date = d /\ Strip(df[i].text) # <<>>

\* groupby('날짜')[...].apply(...).reset_index(): one row per date, ascending
GroupByDate(df) ==
    LET keys == SortedSeq({df[i].date : i \in DOMAIN df})
    IN  [i \in 1..Len(keys) |-> [date |-> keys[i], written |-> AnyWritten(df, keys[i])]]

\* mutant: the non-blank rows' dates without the groupby
WrittenDates_Ungrouped(df_member) ==
    LET rows == SelectSeq(FilterWindow(df_member), LAMBDA r : Strip(r.text) # <<>>)
    IN  [i \in 1..Len(rows) |-> rows[i].date]

\* written_dates: the dates of df_grouped whose flag is True
WrittenDates(df_member) ==
    LET df_written_days == SelectSeq(GroupByDate(FilterWindow(df_member)), LAMBDA g : g.written)
    IN  [i \in 1..Len(df_written_days) |-> df_written_days[i].date]

\* mutant: the week's end whatever today is
EffectiveWeekEnd_WeekEnd(week_end, t) == week_end

\* mutant: the count always runs up to today
EffectiveWeekEnd_Today(week_end, t) == t

EffectiveWeekEnd(week_end, t) == Min(week_end, t)

\* mutant: the week's start is not tested
CountIn_NoLowerBound(written_dates, lo, hi) ==
    Len(SelectSeq(written_dates, LAMBDA d : d <= hi))

\* sum(1 for d in written_dates if lo <= d <= hi)
CountIn(written_dates, lo, hi) ==
    Len(SelectSeq(written_dates, LAMBDA d : lo <= d /\ d <= hi))

\* mutant: the whole week is counted whatever today is
WrittenCount_WholeWeek(written_dates, week_data, t) ==
    CountIn(written_dates, week_data.start, week_data.end)

\* mutant: a begun week is counted up to today, past its end
WrittenCount_PastEnd(written_dates, week_data, t) ==
    IF week_data.start > t THEN 0
    ELSE CountIn(written_dates, week_data.start, t)

WrittenCount(written_dates, week_data, t) ==
    IF week_data.start > t THEN 0
    ELSE CountIn(written_dates, week_data.start, EffectiveWeekEnd(week_data.end, t))

\* mutant: a week is finished on its last day
IsFinished_Inclusive(week_data, t) ==
    IF week_data.start > t THEN FALSE ELSE week_data.end <= t

\* mutant: a week is finished a day late
IsFinished_Late(week_data, t) ==
    IF week_data.start > t THEN FALSE ELSE week_data.end + 1 < t

IsFinished(week_data, t) ==
    IF week_data.start > t THEN FALSE ELSE week_data.end < t

\* mutant: every begun week is current
IsCurrent_NoEnd(week_data, t) ==
    IF week_data.start > t THEN FALSE ELSE week_data.start <= t

IsCurrent(week_data, t) ==
    IF week_data.start > t THEN FALSE
    ELSE week_data.start <= t /\ t <= week_data.end /\ ~IsFinished(week_data, t)

\* mutant: no cap at 100
AchievementRate_Uncapped(written_count, goal) ==
    IF goal > 0 THEN FracScale(Frac(written_count, goal), 100) ELSE <<0, 1>>

\* mutant: the division is made for every goal
AchievementRate_Unguarded(written_count, goal) ==
    FracMin(FracScale(Frac(written_count, goal), 100), 100)

\* min(written_count / goal * 100, 100) if goal > 0 else 0
AchievementRate(written_count, goal) ==
    IF goal > 0 THEN FracMin(FracScale(Frac(written_count, goal), 100), 100) ELSE <<0, 1>>

\* mutant: the bonus week is added too
AddToTotal_AllWeeks(total, week_data, written_count) == total + written_count

\* if is_challenge: total_written_challenge += written_count
AddToTotal(total, week_data, written_count) ==
    IF week_data.is_challenge THEN total + written_count ELSE total

\* mutant: the weekly goal for the total goal
OverallCompletionRate_WeeklyGoal(total) ==
    FracMin(FracScale(Frac(total, WEEKLY_GOAL), 100), 100)

\* mutant: no cap at 100
OverallCompletionRate_Uncapped(total) ==
    FracScale(Frac(total, TOTAL_CHALLENGE_GOAL), 100)

\* min(total_written_challenge / TOTAL_CHALLENGE_GOAL * 100, 100)
OverallCompletionRate(total) ==
    FracMin(FracScale(Frac(total, TOTAL_CHALLENGE_GOAL), 100), 100)

WeekStatus(week_data, written_dates, t) ==
    LET written_count == WrittenCount(written_dates, week_data, t)
    IN  [name |-> week_data.name,
         start |-> week_data.start,
         end |-> week_data.end,
         written |-> written_count,
         goal |-> week_data.goal,
         rate |-> AchievementRate(written_count, week_data.goal),
         is_current |-> IsCurrent(week_data, t),
         is_finished |-> IsFinished(week_data, t),
         is_challenge |-> week_data.is_challenge]

\* for week_data in CHALLENGE_WEEKS: ..., from week i on
RECURSIVE WeekLoop(_, _, _, _, _)
WeekLoop(i, written_dates, t, weekly_status, total) ==
    IF i > Len(CHALLENGE_WEEKS)
    THEN [weekly_status |-> weekly_status, total |-> total]
    ELSE LET entry == WeekStatus(CHALLENGE_WEEKS[i], written_dates, t)
         IN  WeekLoop(i + 1, written_dates, t,
                      Append(weekly_status, entry),
                      AddToTotal(total, CHALLENGE_WEEKS[i], entry.written))

\* mutant: the total of the call before is carried into this one
InitialTotal_Carried == IF status.called THEN status.total_written_challenge ELSE 0

\* total_written_challenge = 0
InitialTotal == 0

\* The returned tuple, with the inputs of the call kept beside it.
CalculateChallengeStatus(df_member, t) ==
    LET written_dates == WrittenDates(df_member)
        loop == WeekLoop(1, written_dates, t, <<>>, InitialTotal)
    IN  [called |-> TRUE,
         df |-> df_member,
         today |-> t,
         weekly_status |-> loop.weekly_status,
         overall_completion_rate |-> OverallCompletionRate(loop.total),
         total_written_challenge |-> loop.total,
         total_goal |-> TOTAL_CHALLENGE_GOAL,
         written_dates_set |-> Range(written_dates),
         written_dates |-> written_dates]

NoStatus == [called |-> FALSE]

\* what a call returned, without the inputs recorded beside it
Returned(st) ==
    <<st.weekly_status, st.overall_completion_rate, st.total_written_challenge,
      st.total_goal, st.written_dates_set, st.written_dates>>

(***************************************************************************)
(* get_motivation_message.  A message is the record of what its text       *)
(* holds; expected is the local expected_goal_to_date, kept beside the     *)
(* deficit of the behind-pace text, which does not print it.               *)
(***************************************************************************)
\* int(x) of the float n / d, d > 0: truncation toward zero
IntTrunc(n, d) == IF n >= 0 THEN n \div d ELSE -((-n) \div d)

Max(a, b) == IF a >= b THEN a ELSE b

\* mutant: the goal must be exceeded
GoalReached_Strict(total_written, total_goal) == total_written > total_goal

\* if total_written >= total_goal
GoalReached(total_written, total_goal) == total_written >= total_goal

\* mutant: the expected count must be exceeded
OnPace_Strict(total_written, expected_goal_to_date) ==
    total_written > expected_goal_to_date

\* if total_written >= expected_goal_to_date
OnPace(total_written, expected_goal_to_date) ==
    total_written >= expected_goal_to_date

PaceMessage(total_written, expected_goal_to_date) ==
    IF OnPace(total_written, expected_goal_to_date)
    THEN [kind |-> "on_pace", expected |-> expected_goal_to_date,
          surplus |-> total_written - expected_goal_to_date]
    ELSE [kind |-> "behind", expected |-> expected_goal_to_date,
          deficit |-> expected_goal_to_date - total_written]

\* mutant: the days elapsed since the challenge start over the days of the
\* graded weeks
GetMotivationMessage_MixedBaseline(total_written, total_goal, t) ==
    IF GoalReached(total_written, total_goal)
    THEN [kind |-> "achieved", goal |-> total_goal]
    ELSE LET first == CHALLENGE_WEEKS[2].start
             last == CHALLENGE_WEEKS[Len(CHALLENGE_WEEKS)].end
             days == (t - CHALLENGE_START_DATE) + 1
             main_challenge_days == (last - first) + 1
             elapsed_challenge_days == IF days < 0 THEN 0 ELSE days
             expected_goal_to_date ==
                 Max(0, IntTrunc(TOTAL_CHALLENGE_GOAL * elapsed_challenge_days,
                                 main_challenge_days))
         IN  PaceMessage(total_written, expected_goal_to_date)

\* src/app12.py: the baseline is the first graded week
GetMotivationMessage(total_written, total_goal, t) ==
    IF GoalReached(total_written, total_goal)
    THEN [kind |-> "achieved", goal |-> total_goal]
    ELSE LET first == CHALLENGE_WEEKS[2].start
             last == CHALLENGE_WEEKS[Len(CHALLENGE_WEEKS)].end
             days == (t - first) + 1
             main_challenge_days == (last - first) + 1
             elapsed_challenge_days == IF days < 0 THEN 0 ELSE days
             expected_goal_to_date ==
                 Max(0, IntTrunc(TOTAL_CHALLENGE_GOAL * elapsed_challenge_days,
                                 main_challenge_days))
         IN  PaceMessage(total_written, expected_goal_to_date)

\* mutant: the baseline of src/app12.py in src/app2.py too
GetMotivationMessageApp2_GradedBaseline(total_written, total_goal, t) ==
    GetMotivationMessage(total_written, total_goal, t)

\* src/app2.py: the baseline is the challenge start, and nothing is clamped
GetMotivationMessageApp2(total_written, total_goal, t) ==
    IF GoalReached(total_written, total_goal)
    THEN [kind |-> "achieved", goal |-> total_goal]
    ELSE LET elapsed_days == (t - CHALLENGE_START_DATE) + 1
             total_challenge_days == (CHALLENGE_END_DATE - CHALLENGE_START_DATE) + 1
             expected_goal_to_date ==
                 IntTrunc(total_goal * elapsed_days, total_challenge_days)
         IN  PaceMessage(total_written, expected_goal_to_date)

\* the message of each variant for one call, with the inputs of the call
\* kept beside them
MotivationMessages(total_written, total_goal, t) ==
    [called |-> TRUE,
     total_written |-> total_written,
     total_goal |-> total_goal,
     today |-> t,
     app12 |-> GetMotivationMessage(total_written, total_goal, t),
     app2 |-> GetMotivationMessageApp2(total_written, total_goal, t)]

(***************************************************************************)
(* The worksheet when a session starts.  The sheet is an external store:   *)
(* it holds what earlier sessions appended and what was typed into it.     *)
(***************************************************************************)
Row(cell, text) == [date |-> cell, text |-> text]

EmptySheet == <<>>

\* Written days 12/9, 12/10, 12/11 and 12/16, among rows that do not count:
\* blank and whitespace-only texts, a second and third row of a written day,
\* a day with blank rows only, days outside the window, cells that are no date.
ScenarioSheet == <<
    Row(<<2025, 12, 9>>, <<>>),
    Row(<<2025, 12, 9>>, <<"a">>),
    Row(<<2025, 12, 10>>, <<" ", "\n">>),
    Row(<<2025, 12, 10>>, <<" ", "a", " ">>),
    Row(<<2025, 12, 10>>, <<"a">>),
    Row(<<2025, 12, 12>>, <<>>),
    Row(<<2025, 12, 12>>, <<" ">>),
    Row(<<2025, 12, 2>>, <<"a">>),
    Row(<<2026, 1, 5>>, <<"a">>),
    Row(<<2025, 13, 40>>, <<"a">>),
    Row(<<>>, <<"a">>),
    Row(<<2025, 12, 11>>, <<"a">>),
    Row(<<2025, 12, 16>>, <<"a">>) >>

\* one row for every day of the clock range
FullSheet ==
    [i \in 1..(LastDay - FirstDay + 1) |-> Row(FormatDate(FirstDay + i - 1), <<"a">>)]

InitialSheets == {EmptySheet, ScenarioSheet, FullSheet}

(***************************************************************************)
(* The session.                                                            *)
(***************************************************************************)
NoCache == [hit |-> FALSE, outcome |-> "ok", df |-> <<>>]

\* modal_date = '' and modal_motivation = ''
NoModal == [date |-> <<>>, motivation |-> [called |-> FALSE]]

\* the texts typed into the writing area
SaveTexts == {<<" ">>, <<" ", "a", " ">>}

\* how a call of the body of load_data ends: the frame of the records, or
\* the empty frame of one of its two except branches
LoadOutcomes == {"ok", "worksheet_not_found", "load_error"}

\* the values of st.session_state.view
Views == {"home", "challenge", "admin_login", "admin_dashboard"}

\* the first option of the selectbox of main_page
Placeholder == "-- select --"

\* one decimal digit as a character
Digit(k) == <<"0", "1", "2", "3", "4", "5", "6", "7", "8", "9">>[k + 1]

\* a number zero-padded to a width
Digits(n, width) == [i \in 1..width |-> Digit((n \div (10 ^ (width - i))) % 10)]

\* date.today().strftime('%Y%m%d')
StrftimeYmd(t) ==
    LET f == FormatDate(t) IN Digits(f[1], 4) \o Digits(f[2], 2) \o Digits(f[3], 2)

\* today_password of admin_login_view
TodayPassword(t) == StrftimeYmd(t) \o TODAY_PASSWORD_SUFFIX

\* the defaults set before the dispatch, and the first run of the script
InitSession ==
    /\ cache = NoCache
    /\ status = NoStatus
    /\ repeated = FALSE
    /\ saves = 0
    /\ ticks = 0
    /\ modal = NoModal
    /\ loaded = "none"
    /\ errors = {}
    /\ view = "home"
    /\ selected_member = MEMBERS[1]
    /\ conn = TRUE
    /\ page = "home"
    /\ writing = [content |-> <<>>, key |-> 0]
    /\ input_pwd = <<>>

Init ==
    /\ today \in Days
    /\ sheet \in InitialSheets
    /\ InitSession

\* the body of load_data: what it returns is what st.cache_data keeps
LoadDataBody(rows, outcome) ==
    [hit |-> TRUE, outcome |-> outcome,
     df |-> IF outcome = "ok" THEN LoadData(rows) ELSE <<>>]

\* @st.cache_data load_data(member): the cached frame, or a fresh load
CachedLoadWith(outcome) == IF cache.hit THEN cache ELSE LoadDataBody(sheet, outcome)

CachedLoad == CachedLoadWith("ok")

\* the st.error of the except branch taken by this run's load, if any
LoadErrors(outcome) == IF cache.hit \/ outcome = "ok" THEN {} ELSE {outcome}

SameInputs(st, df_member, t) == st.called /\ st.df = df_member /\ st.today = t

\* load_data and calculate_challenge_status for the participant, as both
\* challenge_participant_view and the loop of challenge_admin_view call them
RenderBody(outcome) ==
    /\ cache' = CachedLoadWith(outcome)
    /\ status' = CalculateChallengeStatus(cache'.df, today)
    /\ repeated' = SameInputs(status, cache'.df, today)
    /\ loaded' = cache'.outcome
    /\ errors' = LoadErrors(outcome)

\* the view the dispatch leaves in the session state
RouteView(v, member, connected) ==
    IF v = "challenge" /\ connected /\ member \notin Range(MEMBERS) THEN "home" ELSE v

\* the page the dispatch renders: the page of the view, or the warning
\* alone when init_connection() returns None
RoutePage(v, member, connected) ==
    IF v \in {"admin_dashboard", "challenge"} /\ ~connected THEN "conn_warning"
    ELSE RouteView(v, member, connected)

\* the buttons of a page that write st.session_state.view
PageActions(p) ==
    CASE p = "home" -> {"start", "admin"}
      [] p = "challenge" -> {"home"}
      [] p = "admin_login" -> {"login", "home"}
      [] p = "admin_dashboard" -> {"home"}
      [] p = "conn_warning" -> {}

\* a script run that starts with st.session_state.view = v
Rerun(v, member, outcome) ==
    /\ view' = RouteView(v, member, conn)
    /\ page' = RoutePage(v, member, conn)
    /\ IF page' \in {"challenge", "admin_dashboard"} THEN RenderBody(outcome)
       ELSE /\ errors' = IF page' = "conn_warning" THEN {"connection_error"} ELSE {}
            /\ UNCHANGED <<cache, status, repeated, loaded>>

\* the start button of main_page, and the rerun it asks for
StartChallengeWith(selected, outcome) ==
    /\ page = "home"
    /\ IF selected = Placeholder
       THEN UNCHANGED vars
       ELSE /\ selected_member' = selected
            /\ Rerun("challenge", selected, outcome)
            /\ UNCHANGED <<today, sheet, saves, ticks, modal, writing, conn, input_pwd>>

StartChallenge(selected) == StartChallengeWith(selected, "ok")

\* the admin button of main_page
AdminButton ==
    /\ page = "home"
    /\ Rerun("admin_login", selected_member, "ok")
    /\ UNCHANGED <<today, sheet, saves, ticks, modal, writing, selected_member, conn,
                   input_pwd>>

\* a home button: the one of admin_login_view, or the one of a view function
\* that the dispatch calls when the connection is there
GoHome ==
    /\ "home" \in PageActions(page)
    /\ page = "admin_login" \/ conn
    /\ Rerun("home", selected_member, "ok")
    /\ UNCHANGED <<today, sheet, saves, ticks, modal, writing, selected_member, conn,
                   input_pwd>>

\* mutant: the login button opens the dashboard whatever is typed
Login_AnyPassword(pwd) ==
    /\ page = "admin_login"
    /\ input_pwd' = pwd
    /\ Rerun("admin_dashboard", selected_member, "ok")
    /\ UNCHANGED <<today, sheet, saves, ticks, modal, writing, selected_member, conn>>

\* the login button of admin_login_view
Login(pwd) ==
    /\ page = "admin_login"
    /\ input_pwd' = pwd
    /\ IF pwd = TodayPassword(today)
       THEN Rerun("admin_dashboard", selected_member, "ok")
       ELSE /\ errors' = {"wrong_password"}
            /\ UNCHANGED <<view, page, cache, status, repeated, loaded>>
    /\ UNCHANGED <<today, sheet, saves, ticks, modal, writing, selected_member, conn>>

\* the cached connection runs out and init_connection() is called again
Connection(ok) ==
    /\ conn # ok
    /\ conn' = ok
    /\ UNCHANGED <<today, sheet, cache, status, repeated, saves, ticks, modal, loaded,
                   errors, view, selected_member, page, writing, input_pwd>>

\* any widget of a participant or dashboard page while init_connection()
\* returns None: the dispatch shows the warning and calls no view function
ConnectionWarning ==
    /\ page \in {"challenge", "admin_dashboard"}
    /\ ~conn
    /\ Rerun(view, selected_member, "ok")
    /\ UNCHANGED <<today, sheet, saves, ticks, modal, writing, selected_member, conn,
                   input_pwd>>

\* the dispatch has called challenge_participant_view
OnParticipantPage == page = "challenge" /\ conn

\* one run of challenge_participant_view with no button pressed
RenderWith(outcome) ==
    /\ OnParticipantPage
    /\ RenderBody(outcome)
    /\ UNCHANGED <<today, sheet, saves, ticks, modal, writing>>
    /\ UNCHANGED nav

Render == RenderWith("ok")

\* the save button with a blank text: the warning, and nothing stored
SaveBlank(new_content) ==
    /\ Strip(new_content) = <<>>
    /\ Render

\* value_input_option='USER_ENTERED': the cell is what typing the text into
\* the sheet gives, and a leading apostrophe marks a text and is not kept
UserEntered(text) ==
    IF text # <<>> /\ Head(text) = "'" THEN Tail(text) ELSE text

\* the save button with a text: update_data, then the rerun it asks for;
\* outcome is how the load_data call of update_data ends
SaveEntryWith(selected_date, new_content, outcome) ==
    /\ OnParticipantPage
    /\ Strip(new_content) # <<>>
    /\ saves < MaxSaves
    /\ sheet' = Append(sheet, Row(FormatDate(selected_date), UserEntered(new_content)))
    /\ cache' = LoadDataBody(sheet', outcome)
    /\ status' = CalculateChallengeStatus(cache'.df, today)
    /\ repeated' = SameInputs(status, cache'.df, today)
    /\ modal' = [date |-> FormatDate(selected_date),
                 motivation |-> MotivationMessages(status'.total_written_challenge,
                                                   status'.total_goal, today)]
    /\ writing' = [content |-> <<>>, key |-> saves + 1]
    /\ loaded' = outcome
    /\ errors' = {}
    /\ saves' = saves + 1
    /\ UNCHANGED <<today, ticks>>
    /\ UNCHANGED nav

SaveEntry(selected_date, new_content) == SaveEntryWith(selected_date, new_content, "ok")

\* the save button with a text when worksheet() or append_row raises: the
\* page of this run, and st.error from the except branch of update_data
SaveFailed(new_content, outcome) ==
    /\ OnParticipantPage
    /\ Strip(new_content) # <<>>
    /\ cache' = CachedLoadWith(outcome)
    /\ status' = CalculateChallengeStatus(cache'.df, today)
    /\ repeated' = SameInputs(status, cache'.df, today)
    /\ loaded' = cache'.outcome
    /\ errors' = LoadErrors(outcome) \cup {"save_error"}
    /\ UNCHANGED <<today, sheet, saves, ticks, modal, writing>>
    /\ UNCHANGED nav

\* the ttl of st.cache_data runs out
Expire ==
    /\ cache.hit
    /\ cache' = NoCache
    /\ UNCHANGED <<today, sheet, status, repeated, saves, ticks, modal, loaded, errors,
                   writing>>
    /\ UNCHANGED nav

\* midnight: date.today() moves on
Tick ==
    /\ ticks < MaxTicks
    /\ today < LastDay
    /\ today' = today + 1
    /\ ticks' = ticks + 1
    /\ UNCHANGED <<sheet, cache, status, repeated, saves, modal, loaded, errors, writing>>
    /\ UNCHANGED nav

\* st.date_input(value=today, max_value=today): today is kept, or the day
\* before it is picked
SelectableDates == {d \in {today - 1, today} : d \in Days}

\* the options of the selectbox taken in the model: the placeholder and the
\* first participant
Selections == {Placeholder, MEMBERS[1]}

\* the session of a participant who opens their page and stays on it, while
\* the store answers every request
Next ==
    \/ \E selected \in Selections : StartChallenge(selected)
    \/ Render
    \/ \E new_content \in SaveTexts : SaveBlank(new_content)
    \/ \E d \in SelectableDates : \E new_content \in SaveTexts : SaveEntry(d, new_content)
    \/ Expire
    \/ Tick

Spec == Init /\ [][Next]_vars

(***************************************************************************)
(* The session on a store that may fail: a load may end in either except   *)
(* branch of load_data, and worksheet() or append_row may raise in         *)
(* update_data.                                                            *)
(***************************************************************************)
\* the texts typed into the writing area: a blank one, one with blanks
\* around it, one that begins with an apostrophe and an apostrophe alone
StoreTexts == {<<" ">>, <<" ", "a", " ">>, <<"'", "a">>, <<"'">>}

InitStore ==
    /\ today \in Days
    /\ sheet \in {EmptySheet, ScenarioSheet}
    /\ InitSession

NextStore ==
    \/ \E selected \in Selections : \E outcome \in LoadOutcomes :
           StartChallengeWith(selected, outcome)
    \/ \E outcome \in LoadOutcomes : RenderWith(outcome)
    \/ \E new_content \in StoreTexts : SaveBlank(new_content)
    \/ \E d \in SelectableDates : \E new_content \in StoreTexts :
           \E outcome \in {"ok", "load_error"} : SaveEntryWith(d, new_content, outcome)
    \/ \E new_content \in StoreTexts : \E outcome \in LoadOutcomes :
           SaveFailed(new_content, outcome)
    \/ Expire

SpecStore == InitStore /\ [][NextStore]_vars

(***************************************************************************)
(* The routing of the session: the four views, the login of the organiser  *)
(* and the connection to the store coming and going.                       *)
(***************************************************************************)
\* the passwords typed in the model: the one of today, the one of the day
\* before, the date without the suffix, and nothing
PasswordInputs ==
    {TodayPassword(today), TodayPassword(today - 1), StrftimeYmd(today), <<>>}

InitNav ==
    /\ today \in Days
    /\ sheet = ScenarioSheet
    /\ InitSession

NextNav ==
    \/ \E selected \in Selections : StartChallenge(selected)
    \/ AdminButton
    \/ GoHome
    \/ \E pwd \in PasswordInputs : Login(pwd)
    \/ \E ok \in BOOLEAN : Connection(ok)
    \/ ConnectionWarning
    \/ Render
    \/ Expire
    \/ Tick

SpecNav == InitNav /\ [][NextNav]_vars

(***************************************************************************)
(* Properties.  They are stated over the inputs and the result of the      *)
(* latest call kept in status, with the notions they use defined here      *)
(* independently of the operators of the model above.                      *)
(***************************************************************************)
Weeks == DOMAIN CHALLENGE_WEEKS

NonBlank(text) == \E k \in DOMAIN text : text[k] \notin Whitespace

\* the days of the window on which a row of df has a non-blank text
DaysWritten(df) ==
    {d \in CHALLENGE_START_DATE..CHALLENGE_END_DATE :
        \E i \in DOMAIN df : df[i].date = d /\ NonBlank(df[i].text)}

\* a fraction is the integer k
IsInt(f, k) == f[2] > 0 /\ f[1] = k * f[2]

\* a fraction is min(n / d * 100, 100), for d > 0
IsCappedPercent(f, n, d) ==
    /\ f[2] > 0
    /\ IF n * 100 >= 100 * d THEN f[1] = 100 * f[2] ELSE f[1] * d = n * 100 * f[2]

InPercentRange(f) == f[2] > 0 /\ f[1] >= 0 /\ f[1] <= 100 * f[2]

RECURSIVE SumWritten(_, _)
SumWritten(weekly_status, graded_only) ==
    IF weekly_status = <<>> THEN 0
    ELSE (IF Head(weekly_status).is_challenge \/ ~graded_only
          THEN Head(weekly_status).written ELSE 0)
         + SumWritten(Tail(weekly_status), graded_only)

\* C1: the written-day set of a call is exactly the set of days of the
\* inclusive challenge window on which some row of the frame has a text that
\* is not blank after trimming; days outside the window and days whose rows
\* are all blank are not in it, and the list of written days holds each day
\* once.
C1_WrittenDaySet ==
    status.called =>
        /\ status.written_dates_set = DaysWritten(status.df)
        /\ Len(status.written_dates) = Cardinality(DaysWritten(status.df))
        /\ \A i, j \in DOMAIN status.written_dates :
               i # j => status.written_dates[i] # status.written_dates[j]

\* C1 witness: a call on a frame with a row before the window, a row after
\* it, a day in the window with blank rows only and a day with two non-blank
\* rows.
C1_Witness ==
    /\ status.called
    /\ \E i \in DOMAIN status.df : status.df[i].date < CHALLENGE_START_DATE
    /\ \E i \in DOMAIN status.df : status.df[i].date > CHALLENGE_END_DATE
    /\ \E i \in DOMAIN status.df :
           /\ status.df[i].date \in CHALLENGE_START_DATE..CHALLENGE_END_DATE
           /\ status.df[i].date \notin status.written_dates_set
    /\ \E i, j \in DOMAIN status.df :
           /\ i # j
           /\ status.df[i].date = status.df[j].date
           /\ NonBlank(status.df[i].text)
           /\ NonBlank(status.df[j].text)
           /\ status.df[i].date \in status.written_dates_set

\* C2: a week that starts after today has written count 0; any other week's
\* written count is the number of written days d with
\* week.start <= d <= min(week.end, today).
C2_WrittenCount ==
    status.called =>
        /\ Len(status.weekly_status) = Len(CHALLENGE_WEEKS)
        /\ \A w \in Weeks :
               status.weekly_status[w].written =
                   IF CHALLENGE_WEEKS[w].start > status.today THEN 0
                   ELSE Cardinality({d \in status.written_dates_set :
                                        /\ CHALLENGE_WEEKS[w].start <= d
                                        /\ d <= CHALLENGE_WEEKS[w].end
                                        /\ d <= status.today})

\* C2 witness: a call with a week not yet begun whose days are written, and
\* a begun week with a counted day and a written day after today.
C2_Witness ==
    /\ status.called
    /\ \E w \in Weeks :
           /\ CHALLENGE_WEEKS[w].start > status.today
           /\ \E d \in status.written_dates_set : d >= CHALLENGE_WEEKS[w].start
    /\ \E w \in Weeks :
           /\ CHALLENGE_WEEKS[w].start <= status.today
           /\ status.weekly_status[w].written > 0
           /\ \E d \in status.written_dates_set :
                  d > status.today /\ d <= CHALLENGE_WEEKS[w].end

\* what C3 compares: every week's written count and rate, and the totals
Summary(st) ==
    <<[w \in DOMAIN st.weekly_status |->
          <<st.weekly_status[w].written, st.weekly_status[w].rate>>],
      st.total_written_challenge, st.overall_completion_rate>>

\* the dates and texts of the rows C3 appends: yesterday, today and tomorrow
\* of the call (the date input offers the first two), a blank text and one
\* that is not
C3_Dates == {status.today - 1, status.today, status.today + 1}
C3_Texts == {<<" ">>, <<"a">>}

\* C3: several entries of one day count once.  With today fixed, a further
\* row, blank or not, on a day that is already a written day leaves every
\* week's written count and rate, the graded total and the completion rate
\* as they are, whatever the rows appended before.
C3_SameDayCountsOnce ==
    status.called =>
        \A d \in C3_Dates \cap status.written_dates_set : \A text \in C3_Texts :
            Summary(CalculateChallengeStatus(
                        Append(status.df, [date |-> d, text |-> text]), status.today))
                = Summary(status)

\* C3 witness: the session has saved a text on a day that was a written day
\* already, and the status has been computed from the longer log.
C3_Witness ==
    /\ status.called
    /\ saves > 0
    /\ status.df = LoadData(sheet)
    /\ LET n == Len(status.df)
       IN  /\ n > 1
           /\ status.df[n].date \in status.written_dates_set
           /\ status.df[n].date <= status.today
           /\ \E i \in 1..(n - 1) :
                  /\ status.df[i].date = status.df[n].date
                  /\ NonBlank(status.df[i].text)

\* C4: a week's rate is 0 when its goal is 0 and min(written / goal * 100,
\* 100) when the goal is positive; every rate and the completion rate lie in
\* [0, 100].
C4_RateCapped ==
    status.called =>
        /\ \A w \in Weeks :
               LET ws == status.weekly_status[w]
               IN  /\ ws.goal = CHALLENGE_WEEKS[w].goal
                   /\ IF ws.goal = 0 THEN IsInt(ws.rate, 0)
                      ELSE IsCappedPercent(ws.rate, ws.written, ws.goal)
                   /\ InPercentRange(ws.rate)
        /\ InPercentRange(status.overall_completion_rate)

\* C4 witness: a call where a graded week has more written days than its
\* goal, the bonus week has written days, and the graded total exceeds the
\* total goal.
C4_Witness ==
    /\ status.called
    /\ \E w \in Weeks :
           /\ status.weekly_status[w].goal > 0
           /\ status.weekly_status[w].written > status.weekly_status[w].goal
    /\ \E w \in Weeks :
           status.weekly_status[w].goal = 0 /\ status.weekly_status[w].written > 0
    /\ status.total_written_challenge > TOTAL_CHALLENGE_GOAL

\* the rows of df outside the weeks that are not graded
WithoutBonusRows(df) ==
    SelectSeq(df, LAMBDA r :
        ~\E w \in Weeks : /\ ~CHALLENGE_WEEKS[w].is_challenge
                          /\ CHALLENGE_WEEKS[w].start <= r.date
                          /\ r.date <= CHALLENGE_WEEKS[w].end)

\* C5: the graded total is the sum of the written counts of the graded weeks
\* only; the bonus week's written days are in that week's count and leave
\* the graded total and the completion rate as they are without them; the
\* completion rate is min(total / TOTAL_CHALLENGE_GOAL * 100, 100).
C5_GradedTotal ==
    status.called =>
        /\ status.total_written_challenge = SumWritten(status.weekly_status, TRUE)
        /\ status.total_goal = TOTAL_CHALLENGE_GOAL
        /\ IsCappedPercent(status.overall_completion_rate,
                           status.total_written_challenge, TOTAL_CHALLENGE_GOAL)
        /\ LET rest == CalculateChallengeStatus(WithoutBonusRows(status.df), status.today)
           IN  /\ rest.total_written_challenge = status.total_written_challenge
               /\ rest.overall_completion_rate = status.overall_completion_rate

\* C5 witness: a call where the bonus week and a graded week have written
\* days counted.
C5_Witness ==
    /\ status.called
    /\ status.total_written_challenge > 0
    /\ SumWritten(status.weekly_status, FALSE) > status.total_written_challenge

\* C6: a week is finished exactly when its end is before today, whatever its
\* written count; a week that has not begun is not finished.
C6_FinishedIffPast ==
    status.called =>
        \A w \in Weeks :
            /\ status.weekly_status[w].is_finished = (CHALLENGE_WEEKS[w].end < status.today)
            /\ CHALLENGE_WEEKS[w].start > status.today => ~status.weekly_status[w].is_finished

\* C6 witness: a call with a finished week that has no written day, a
\* finished week that has some, a week on its last day and a week not begun.
C6_Witness ==
    /\ status.called
    /\ \E w \in Weeks :
           status.weekly_status[w].is_finished /\ status.weekly_status[w].written = 0
    /\ \E w \in Weeks :
           status.weekly_status[w].is_finished /\ status.weekly_status[w].written > 0
    /\ \E w \in Weeks : CHALLENGE_WEEKS[w].end = status.today
    /\ \E w \in Weeks : CHALLENGE_WEEKS[w].start > status.today

CurrentWeeks(st) == {w \in Weeks : st.weekly_status[w].is_current}

\* C7: on every today inside the challenge window (its first and last day
\* included) exactly one week is current; before the window starts and after
\* it ends no week is current.
C7_OneCurrentWeek ==
    status.called =>
        Cardinality(CurrentWeeks(status)) =
            IF /\ CHALLENGE_START_DATE <= status.today
               /\ status.today <= CHALLENGE_END_DATE
            THEN 1 ELSE 0

\* C7 witness: a call on a today strictly inside the window, after the first
\* week, with one current week.
C7_Witness ==
    /\ status.called
    /\ CHALLENGE_START_DATE < status.today
    /\ status.today < CHALLENGE_END_DATE
    /\ \E w \in Weeks : w > 1 /\ CurrentWeeks(status) = {w}

ScenarioDates ==
    {Date(2025, 12, 9), Date(2025, 12, 10), Date(2025, 12, 11), Date(2025, 12, 16)}

InScenario ==
    /\ status.called
    /\ status.written_dates_set = ScenarioDates
    /\ status.today = Date(2025, 12, 17)

\* C9: the first three configured weeks are bonus 12/3-12/7 (goal 0, not
\* graded), week 1 12/8-12/14 and week 2 12/15-12/21 (goal 5, graded) and the
\* total goal is 20; with written days 12/9, 12/10, 12/11, 12/16 and today
\* 12/17, week 1 has 3 written days, is finished and has rate 60, week 2 has 1
\* written day, is current and has rate 20, the graded total is 4 and the
\* completion rate 20.
C9_Scenario ==
    /\ SubSeq(CHALLENGE_WEEKS, 1, 3) = <<
           [name |-> "bonus", start |-> Date(2025, 12, 3), end |-> Date(2025, 12, 7),
            goal |-> 0, is_challenge |-> FALSE],
           [name |-> "week1", start |-> Date(2025, 12, 8), end |-> Date(2025, 12, 14),
            goal |-> 5, is_challenge |-> TRUE],
           [name |-> "week2", start |-> Date(2025, 12, 15), end |-> Date(2025, 12, 21),
            goal |-> 5, is_challenge |-> TRUE] >>
    /\ InScenario =>
           /\ status.total_goal = 20
           /\ status.weekly_status[2].written = 3
           /\ status.weekly_status[2].is_finished
           /\ status.weekly_status[2].rate = <<60, 1>>
           /\ status.weekly_status[3].written = 1
           /\ status.weekly_status[3].is_current
           /\ status.weekly_status[3].rate = <<20, 1>>
           /\ status.total_written_challenge = 4
           /\ status.overall_completion_rate = <<20, 1>>

\* C9 witness: the scenario's call has been made.
C9_Witness == InScenario

\* C10: on a today before the challenge start every week has written count
\* 0 and is neither current nor finished, and the graded total and the
\* completion rate are 0, whatever the log holds.
C10_BeforeStart ==
    (status.called /\ status.today < CHALLENGE_START_DATE) =>
        /\ \A w \in Weeks :
               /\ status.weekly_status[w].written = 0
               /\ ~status.weekly_status[w].is_current
               /\ ~status.weekly_status[w].is_finished
        /\ status.total_written_challenge = 0
        /\ IsInt(status.overall_completion_rate, 0)

\* C10 witness: a call before the challenge start on a log with written days
\* inside the window.
C10_Witness ==
    /\ status.called
    /\ status.today < CHALLENGE_START_DATE
    /\ Cardinality(status.written_dates_set) > TOTAL_CHALLENGE_GOAL

\* C11: on a today after the challenge end every week is finished and none
\* is current, each week's written count is the number of written days from
\* its start to its end, and the result is the same a day later: it no
\* longer changes as today advances.
C11_AfterEnd ==
    (status.called /\ status.today > CHALLENGE_END_DATE) =>
        /\ \A w \in Weeks :
               /\ status.weekly_status[w].is_finished
               /\ ~status.weekly_status[w].is_current
               /\ status.weekly_status[w].written =
                      Cardinality({d \in DaysWritten(status.df) :
                                      /\ CHALLENGE_WEEKS[w].start <= d
                                      /\ d <= CHALLENGE_WEEKS[w].end})
        /\ Returned(CalculateChallengeStatus(status.df, status.today + 1))
               = Returned(status)

\* C11 witness: a call after the challenge end on a log with written days in
\* several weeks and rows dated after the end.
C11_Witness ==
    /\ status.called
    /\ status.today > CHALLENGE_END_DATE
    /\ status.total_written_challenge > 0
    /\ \E k \in DOMAIN status.df : status.df[k].date > CHALLENGE_END_DATE

\* the totals a call of get_motivation_message can be given: at most one
\* written day for every day of the graded weeks
Totals == 0..Cardinality({d \in Days : \E w \in Weeks :
                             /\ CHALLENGE_WEEKS[w].is_challenge
                             /\ CHALLENGE_WEEKS[w].start <= d
                             /\ d <= CHALLENGE_WEEKS[w].end})

Variants == {"app12", "app2"}

\* C12: when the total has reached the total goal the message is the
\* goal-achieved one and names the goal, in both variants and on every
\* today: for the message stored by a save, and for every total the
\* function can be given on the today of the session.
C12_GoalAchieved ==
    /\ modal.motivation.called =>
           LET m == modal.motivation
           IN  m.total_written >= m.total_goal =>
                   \A v \in Variants : m[v] = [kind |-> "achieved", goal |-> m.total_goal]
    /\ \A total \in Totals :
           total >= TOTAL_CHALLENGE_GOAL =>
               LET m == MotivationMessages(total, TOTAL_CHALLENGE_GOAL, today)
               IN  \A v \in Variants :
                       m[v] = [kind |-> "achieved", goal |-> TOTAL_CHALLENGE_GOAL]

\* C12 witness: a save stored a message for a total equal to the goal.
C12_Witness ==
    /\ modal.motivation.called
    /\ modal.motivation.total_written = modal.motivation.total_goal
    /\ modal.motivation.app12.kind = "achieved"

\* the first day and the number of days of the pacing baseline of a variant:
\* the graded weeks in src/app12.py, the whole window in src/app2.py
BaselineStart(v) == IF v = "app12" THEN CHALLENGE_WEEKS[2].start ELSE CHALLENGE_START_DATE

BaselineDays(v) == (CHALLENGE_END_DATE - BaselineStart(v)) + 1

AtLeastZero(n) == IF n < 0 THEN 0 ELSE n

\* floor(totalGoal * elapsedDays / totalChallengeDays), both clamped to >= 0
ExpectedToDate(v, total_goal, t) ==
    LET elapsedDays == AtLeastZero((t - BaselineStart(v)) + 1)
    IN  AtLeastZero((total_goal * elapsedDays) \div BaselineDays(v))

\* C13: when the total is below the goal, the expected count of the message
\* stored by a save is floor(goal * elapsed / days) with elapsed =
\* (today - baseline start) + 1 clamped to >= 0 and the result clamped to
\* >= 0, and so is never negative, in both variants.
C13_ExpectedClamped ==
    modal.motivation.called =>
        LET m == modal.motivation
        IN  m.total_written < m.total_goal =>
                \A v \in Variants :
                    /\ m[v].expected >= 0
                    /\ m[v].expected = ExpectedToDate(v, m.total_goal, m.today)

\* a message for a total below the goal is on-pace with the surplus, or
\* behind-pace with the deficit, of the total over its expected count
PaceConsistent(msg, total_written) ==
    /\ msg.kind \in {"on_pace", "behind"}
    /\ msg.kind = "on_pace" <=> total_written >= msg.expected
    /\ msg.kind = "on_pace" =>
           msg.surplus = total_written - msg.expected /\ msg.surplus >= 0
    /\ msg.kind = "behind" =>
           msg.deficit = msg.expected - total_written /\ msg.deficit > 0

\* C14: when the total is below the goal the message is on-pace with
\* surplus = total - expected >= 0 if the total has reached the expected
\* count, and behind-pace with deficit = expected - total > 0 otherwise: for
\* the message stored by a save and for every total on the today of the
\* session.  With a total of 0 on the first day of the 28-day baseline the
\* expected count is 0 and the message is on-pace with surplus 0.
C14_SurplusAndDeficit ==
    /\ modal.motivation.called =>
           LET m == modal.motivation
           IN  /\ m.total_written < m.total_goal =>
                      \A v \in Variants : PaceConsistent(m[v], m.total_written)
               /\ (m.total_written = 0 /\ m.today = BaselineStart("app12")) =>
                      /\ BaselineDays("app12") = 28
                      /\ m.app12 = [kind |-> "on_pace", expected |-> 0, surplus |-> 0]
    /\ \A total \in Totals :
           total < TOTAL_CHALLENGE_GOAL =>
               LET m == MotivationMessages(total, TOTAL_CHALLENGE_GOAL, today)
               IN  \A v \in Variants : PaceConsistent(m[v], total)

\* C14 witness: a save on the first day of the 28-day baseline stored a
\* message for a total of 0.
C14_Witness ==
    /\ modal.motivation.called
    /\ modal.motivation.total_written = 0
    /\ modal.motivation.today = BaselineStart("app12")
    /\ modal.motivation.app12.kind = "on_pace"

\* a call returned: it went once through the schedule, in order, and no
\* division in it raised
ReturnedNormally(st) ==
    /\ Len(st.weekly_status) = Len(CHALLENGE_WEEKS)
    /\ \A w \in Weeks :
           /\ st.weekly_status[w].name = CHALLENGE_WEEKS[w].name
           /\ st.weekly_status[w].rate # ZeroDivisionError
           /\ st.weekly_status[w].rate[2] > 0
           /\ CHALLENGE_WEEKS[w].goal > 0 \/ IsInt(st.weekly_status[w].rate, 0)
    /\ st.overall_completion_rate # ZeroDivisionError
    /\ st.overall_completion_rate[2] > 0

\* the empty log, a log of out-of-window rows and a log of blank rows
C15_Logs ==
    { <<>>,
      << [date |-> CHALLENGE_START_DATE - 1, text |-> <<"a">>],
         [date |-> CHALLENGE_END_DATE + 1, text |-> <<"a">>] >>,
      << [date |-> CHALLENGE_START_DATE, text |-> <<>>],
         [date |-> CHALLENGE_END_DATE, text |-> <<" ">>] >> }

\* C15: the status computation has no error path: for the log of every call
\* made, and for the empty log, a log of out-of-window rows and a log of
\* blank rows on the today of the session, it returns one entry per week of
\* the schedule in order, and no division by zero is made: a week of goal 0
\* has rate 0 and the total goal is not 0.
C15_NoErrorPath ==
    /\ TOTAL_CHALLENGE_GOAL # 0
    /\ status.called => ReturnedNormally(status)
    /\ \A df \in C15_Logs : ReturnedNormally(CalculateChallengeStatus(df, today))

\* C15 witness: a call in which the week of goal 0 has written days.
C15_Witness ==
    /\ status.called
    /\ \E w \in Weeks :
           /\ status.weekly_status[w].goal = 0
           /\ status.weekly_status[w].written > 0

\* C16: a store-access failure is never swallowed: what a failed load
\* returns is distinguishable from what a successful load returns, and the
\* status computation is never given the frame of a failed load as a loaded
\* log.
C16_FailuresSurfaced ==
    /\ (cache.hit /\ cache.outcome # "ok") =>
           cache.df # LoadDataBody(EmptySheet, "ok").df
    /\ status.called => loaded = "ok"

\* the rows this session appended to the sheet, as rows of a loaded frame
AppendedRows(rows, n) ==
    {[date |-> Date(rows[k].date[1], rows[k].date[2], rows[k].date[3]),
      text |-> rows[k].text] : k \in (Len(rows) - n + 1)..Len(rows)}

\* C17: after a successful append the cached load is dropped before the log
\* is read again: the total of the message stored for the notification, and
\* every status computed from then on, come from a log that holds the
\* appended entry; a failed append leaves the cache entry and the
\* notification state as they were.
C17_FreshAfterAppend ==
    [][ /\ (saves' > 0 /\ status'.called) =>
               AppendedRows(sheet', saves') \subseteq Range(status'.df)
        /\ saves' > saves =>
               /\ cache'.hit
               /\ AppendedRows(sheet', saves') \subseteq Range(cache'.df)
               /\ modal'.motivation.called
               /\ modal'.motivation.total_written = status'.total_written_challenge
        /\ (\E new_content \in StoreTexts : \E outcome \in LoadOutcomes :
                SaveFailed(new_content, outcome)) =>
               /\ modal' = modal
               /\ cache.hit => cache' = cache
      ]_vars

\* rows is old_rows followed by one row of the day d and the text
OneRowAdded(old_rows, rows, d, text) ==
    /\ Len(rows) = Len(old_rows) + 1
    /\ SubSeq(rows, 1, Len(old_rows)) = old_rows
    /\ LET cell == rows[Len(rows)].date
       IN  Len(cell) = 3 /\ Date(cell[1], cell[2], cell[3]) = d
    /\ rows[Len(rows)].text = text

\* C18: the sheet is append-only: a successful save adds, after the rows
\* there are, one row that holds the selected date and the text exactly as
\* it was entered; a save whose append fails adds no row, and no other step
\* changes the sheet.
C18_AppendOnly ==
    [][ /\ \A d \in SelectableDates : \A new_content \in StoreTexts :
               \A outcome \in LoadOutcomes :
                   SaveEntryWith(d, new_content, outcome) =>
                       OneRowAdded(sheet, sheet', d, new_content)
        /\ saves' = saves => sheet' = sheet
        /\ saves' # saves => saves' = saves + 1 /\ Len(sheet') = Len(sheet) + 1
      ]_vars

\* a date cell that holds a calendar date
IsDateCell(cell) == Len(cell) = 3 /\ IsValidDate(cell[1], cell[2], cell[3])

WellFormedRows(rows) == SelectSeq(rows, LAMBDA r : IsDateCell(r.date))

\* C19: the rows whose date is no date are dropped by the load, which
\* returns a frame, and every other row is kept, in order, with its date and
\* its text; the status computed from the frame is the one computed from the
\* sheet without the malformed rows.
C19_MalformedDropped ==
    (cache.hit /\ status.called /\ status.df = cache.df) =>
        LET good == WellFormedRows(sheet)
        IN  /\ Len(cache.df) = Len(good)
            /\ \A k \in DOMAIN good :
                   /\ cache.df[k].date = Date(good[k].date[1], good[k].date[2], good[k].date[3])
                   /\ cache.df[k].text = good[k].text
            /\ good # sheet =>
                   Returned(status) =
                       Returned(CalculateChallengeStatus(LoadData(good), status.today))

\* C19 witness: a call on the frame of a sheet that has malformed rows
\* before rows of written days.
C19_Witness ==
    /\ cache.hit
    /\ status.called
    /\ status.df = cache.df
    /\ \E j, k \in DOMAIN sheet :
           /\ j < k
           /\ ~IsDateCell(sheet[j].date)
           /\ IsDateCell(sheet[k].date)
           /\ Date(sheet[k].date[1], sheet[k].date[2], sheet[k].date[3])
                  \in status.written_dates_set

\* C20: the configured schedule is well formed: every week starts no later
\* than it ends, the weeks are in chronological order and do not overlap,
\* exactly one week is not graded and its goal is 0, every other week is
\* graded with the weekly goal, and the challenge window runs from the first
\* week's start to the last week's end; every call reports the weeks with
\* this schedule.
C20_Schedule ==
    /\ \A w \in Weeks : CHALLENGE_WEEKS[w].start <= CHALLENGE_WEEKS[w].end
    /\ \A v, w \in Weeks : v < w => CHALLENGE_WEEKS[v].end < CHALLENGE_WEEKS[w].start
    /\ Cardinality({w \in Weeks : ~CHALLENGE_WEEKS[w].is_challenge}) = 1
    /\ \A w \in Weeks :
           IF CHALLENGE_WEEKS[w].is_challenge
           THEN CHALLENGE_WEEKS[w].goal = WEEKLY_GOAL /\ WEEKLY_GOAL > 0
           ELSE CHALLENGE_WEEKS[w].goal = 0
    /\ CHALLENGE_START_DATE = CHALLENGE_WEEKS[1].start
    /\ CHALLENGE_END_DATE = CHALLENGE_WEEKS[Len(CHALLENGE_WEEKS)].end
    /\ \A w \in Weeks : CHALLENGE_START_DATE <= CHALLENGE_WEEKS[w].start
                        /\ CHALLENGE_WEEKS[w].end <= CHALLENGE_END_DATE
    /\ status.called =>
           \A w \in Weeks :
               /\ status.weekly_status[w].start = CHALLENGE_WEEKS[w].start
               /\ status.weekly_status[w].end = CHALLENGE_WEEKS[w].end
               /\ status.weekly_status[w].goal = CHALLENGE_WEEKS[w].goal
               /\ status.weekly_status[w].is_challenge = CHALLENGE_WEEKS[w].is_challenge

\* C20 witness: a call on the last day of the schedule, with a week of each
\* kind reported.
C20_Witness ==
    /\ status.called
    /\ status.today = CHALLENGE_END_DATE
    /\ \E v, w \in Weeks :
           /\ status.weekly_status[v].is_challenge
           /\ ~status.weekly_status[w].is_challenge
           /\ status.weekly_status[w].goal = 0

\* C21: the variants differ in the pacing baseline: the expected count of
\* src/app12.py is measured from the first graded week's start, that of
\* src/app2.py from the start of the window with the bonus week in it, and
\* with a total of 0 on the first graded day src/app12.py reports on-pace
\* while src/app2.py reports behind-pace with another expected count.
C21_BaselinesDiffer ==
    /\ BaselineStart("app2") < BaselineStart("app12")
    /\ modal.motivation.called =>
           LET m == modal.motivation
           IN  m.total_written < m.total_goal =>
                   /\ m.app12.expected = ExpectedToDate("app12", m.total_goal, m.today)
                   /\ m.today >= BaselineStart("app2") =>
                          m.app2.expected = ExpectedToDate("app2", m.total_goal, m.today)
                   /\ (m.total_written = 0 /\ m.today = BaselineStart("app12")) =>
                          /\ m.app12.kind = "on_pace"
                          /\ m.app2.kind = "behind"
                          /\ m.app12.expected # m.app2.expected

\* C21 witness: a save on the first graded day stored messages for a total
\* of 0 whose kinds and expected counts differ.
C21_Witness ==
    /\ modal.motivation.called
    /\ modal.motivation.total_written = 0
    /\ modal.motivation.today = CHALLENGE_WEEKS[2].start
    /\ modal.motivation.app12.kind # modal.motivation.app2.kind
    /\ modal.motivation.app12.expected < modal.motivation.app2.expected

\* the state of a reported week: the set of the flags that are set
WeekFlags(entry) ==
    {f \in {"current", "finished"} :
        \/ f = "current" /\ entry.is_current
        \/ f = "finished" /\ entry.is_finished}

\* C22: in every call every week is in exactly one of three states: not
\* started (its start is after today, neither flag set), current (only
\* is_current set) or finished (only is_finished set); the flags are never
\* both set, and a week that has started never has neither.
C22_OneStatePerWeek ==
    status.called =>
        \A w \in Weeks :
            LET flags == WeekFlags(status.weekly_status[w])
            IN  /\ Cardinality(flags) <= 1
                /\ flags = {} <=> CHALLENGE_WEEKS[w].start > status.today

\* C22 witness: a call in which one week is finished, one is current and one
\* has not started.
C22_Witness ==
    /\ status.called
    /\ \E u, v, w \in Weeks :
           /\ WeekFlags(status.weekly_status[u]) = {"finished"}
           /\ WeekFlags(status.weekly_status[v]) = {"current"}
           /\ WeekFlags(status.weekly_status[w]) = {}

\* the days of a week that have elapsed on t: none before the week starts
ElapsedDaysOfWeek(week, t) == AtLeastZero((Min(week.end, t) - week.start) + 1)

FracAtMost(f, g) == f[1] * g[2] <= g[1] * f[2]

\* from the result before to the result after nothing decreases, and the
\* graded total grows by at most 1
NothingDecreases(before, after) ==
    /\ \A w \in Weeks :
           /\ before.weekly_status[w].written <= after.weekly_status[w].written
           /\ FracAtMost(before.weekly_status[w].rate, after.weekly_status[w].rate)
    /\ before.total_written_challenge <= after.total_written_challenge
    /\ after.total_written_challenge <= before.total_written_challenge + 1
    /\ FracAtMost(before.overall_completion_rate, after.overall_completion_rate)

\* the row C24 appends to the log of a call on t: a blank row of the day
C24_Rows(t) == {[date |-> t, text |-> <<" ">>]}

\* C24: with today fixed, a row appended to the log decreases no week's
\* written count or rate, nor the graded total or the completion rate, and
\* raises the graded total by at most 1: for the row a save appends to the
\* log of the call before it, and for a further, blank row appended to the
\* log after the save.
C24_AppendMonotone ==
    [][ (saves' > saves /\ status'.called) =>
            /\ (/\ status.called
                /\ status.today = status'.today
                /\ Len(status'.df) = Len(status.df) + 1
                /\ SubSeq(status'.df, 1, Len(status.df)) = status.df) =>
                   NothingDecreases(status, status')
            /\ \A row \in C24_Rows(status'.today) :
                   NothingDecreases(status',
                       CalculateChallengeStatus(Append(status'.df, row), status'.today))
      ]_vars

\* C24 witness: a save appended the only non-blank row of a graded day that
\* is not after today to a log with other written days.
C24_Witness ==
    /\ saves > 0
    /\ status.called
    /\ status.df = LoadData(sheet)
    /\ status.total_written_challenge > 1
    /\ LET n == Len(status.df)
       IN  /\ status.df[n].date \in status.written_dates_set
           /\ status.df[n].date <= status.today
           /\ \A i \in 1..(n - 1) : status.df[i].date # status.df[n].date
           /\ \E w \in Weeks :
                  /\ CHALLENGE_WEEKS[w].is_challenge
                  /\ CHALLENGE_WEEKS[w].start <= status.df[n].date
                  /\ status.df[n].date <= CHALLENGE_WEEKS[w].end

\* the states a week may be in a day after it was in the state flags
NextWeekFlags(flags) ==
    IF flags = {} THEN {{}, {"current"}}
    ELSE IF flags = {"current"} THEN {{"current"}, {"finished"}}
    ELSE {{"finished"}}

\* C25: when a call is followed by a call on the same log a day later, every
\* week has stayed in its state or moved one step along not started ->
\* current -> finished, and a week that was finished has the written count
\* and the rate it had.
C25_WeeksMoveForward ==
    [][ (/\ status.called
         /\ status'.called
         /\ status'.df = status.df
         /\ status'.today = status.today + 1) =>
            \A w \in Weeks :
                /\ WeekFlags(status'.weekly_status[w])
                       \in NextWeekFlags(WeekFlags(status.weekly_status[w]))
                /\ status.weekly_status[w].is_finished =>
                       /\ status'.weekly_status[w].written = status.weekly_status[w].written
                       /\ status'.weekly_status[w].rate = status.weekly_status[w].rate
      ]_vars

\* C25 witness: after a midnight a call was made on the first day of a week,
\* the day after another week ended, on a log with written days in both.
C25_Witness ==
    /\ ticks > 0
    /\ status.called
    /\ status.today = today
    /\ \E v, w \in Weeks :
           /\ CHALLENGE_WEEKS[v].end + 1 = status.today
           /\ CHALLENGE_WEEKS[w].start = status.today
           /\ status.weekly_status[v].is_finished
           /\ status.weekly_status[w].is_current
           /\ status.weekly_status[v].written > 0
           /\ status.weekly_status[w].written > 0

\* C26: the pacing message and the overall rate agree: the message computed
\* from the totals a call returned is the goal-achieved one exactly when the
\* returned completion rate is 100, in both variants: for the message of
\* every call on its today, and for the message a save stored from the
\* totals of the status beside it.
C26_MessageAgreesWithRate ==
    status.called =>
        LET full == IsInt(status.overall_completion_rate, 100)
            shown == MotivationMessages(status.total_written_challenge,
                                        status.total_goal, status.today)
        IN  /\ \A v \in Variants : shown[v].kind = "achieved" <=> full
            /\ (/\ modal.motivation.called
                /\ modal.motivation.total_written = status.total_written_challenge
                /\ modal.motivation.total_goal = status.total_goal) =>
                   \A v \in Variants : modal.motivation[v].kind = "achieved" <=> full

\* C26 witness: a save stored the goal-achieved message from a total above
\* the goal, and the status beside it has a completion rate of 100.
C26_Witness ==
    /\ status.called
    /\ modal.motivation.called
    /\ modal.motivation.total_written = status.total_written_challenge
    /\ status.total_written_challenge > status.total_goal
    /\ modal.motivation.app2.kind = "achieved"
    /\ IsInt(status.overall_completion_rate, 100)

\* the expected count of a message is at most the goal, and a deficit at
\* most what is missing to the goal
WithinGoal(msg, total_written, total_goal) ==
    /\ msg.expected <= total_goal
    /\ msg.kind = "behind" => msg.deficit <= total_goal - total_written

\* C27 as stated: for a total below the goal the expected count never
\* exceeds the total goal, on any today, the days after the challenge end
\* included, so a reported deficit is at most goal - total.
C27_ExpectedAtMostGoal ==
    modal.motivation.called =>
        LET m == modal.motivation
        IN  m.total_written < m.total_goal =>
                \A v \in Variants : WithinGoal(m[v], m.total_written, m.total_goal)

\* C27 amended: for a total below the goal the expected count does not
\* exceed the total goal on any today up to the challenge end, and a
\* reported deficit is then at most goal - total: for the message stored by
\* a save, and for every total on the today of the session.
C27_ExpectedAtMostGoalUntilEnd ==
    /\ modal.motivation.called =>
           LET m == modal.motivation
           IN  (m.total_written < m.total_goal /\ m.today <= CHALLENGE_END_DATE) =>
                   \A v \in Variants : WithinGoal(m[v], m.total_written, m.total_goal)
    /\ today <= CHALLENGE_END_DATE =>
           \A total \in Totals :
               total < TOTAL_CHALLENGE_GOAL =>
                   LET m == MotivationMessages(total, TOTAL_CHALLENGE_GOAL, today)
                   IN  \A v \in Variants : WithinGoal(m[v], total, TOTAL_CHALLENGE_GOAL)

\* C27 witness: a save on the last day of the challenge stored behind-pace
\* messages whose expected count is the goal.
C27_Witness ==
    /\ modal.motivation.called
    /\ modal.motivation.today = CHALLENGE_END_DATE
    /\ modal.motivation.total_written < modal.motivation.total_goal
    /\ \A v \in Variants :
           /\ modal.motivation[v].kind = "behind"
           /\ modal.motivation[v].expected = modal.motivation.total_goal

\* C28: a save whose text is blank after trimming is rejected before the
\* store is touched: no row is appended, the cached load is not dropped, and
\* the notification and the writing area stay as they were; so every row
\* appended in the session has a text that is not blank after trimming and
\* a date not later than the day of saving.
C28_BlankSaveRejected ==
    /\ [][\A new_content \in StoreTexts : SaveBlank(new_content) =>
              /\ sheet' = sheet
              /\ saves' = saves
              /\ cache.hit => cache' = cache
              /\ modal' = modal
              /\ writing' = writing]_vars
    /\ [](\A r \in AppendedRows(sheet, saves) :
              /\ Strip(r.text) # <<>>
              /\ r.date <= today)

\* C29: the view is always one of home, challenge, admin_login and
\* admin_dashboard and starts at home; the view becomes admin_dashboard only
\* by the login button of the admin_login page pressed with the date of today
\* as YYYYMMDD followed by the suffix, and the login button pressed with
\* anything else leaves the view at admin_login; the participant page is
\* rendered only for a selected member of the member list.
C29_Routing ==
    /\ view = "home"
    /\ [](/\ view \in Views
          /\ page = "challenge" => selected_member \in Range(MEMBERS))
    /\ [][/\ (view' = "admin_dashboard" /\ view # "admin_dashboard") =>
                 /\ view = "admin_login"
                 /\ page = "admin_login"
                 /\ input_pwd' = StrftimeYmd(today) \o TODAY_PASSWORD_SUFFIX
          /\ \A pwd \in PasswordInputs :
                 (Login(pwd) /\ pwd # StrftimeYmd(today) \o TODAY_PASSWORD_SUFFIX) =>
                     view = "admin_login" /\ view' = "admin_login"]_vars

\* C29 witness: the dashboard opened by the password of the day, and the
\* status of the participant computed by its loop.
C29_Witness ==
    /\ view = "admin_dashboard"
    /\ page = "admin_dashboard"
    /\ input_pwd = TodayPassword(today)
    /\ status.called

\* C30: no view is a dead end: in every state of the session, whether the
\* connection to the store is there or not, the view is home or the page
\* rendered has a button that sets the view to home.
C30_NoDeadEnd == view # "home" => "home" \in PageActions(page)

====
